---- MODULE Spec2Model ----
(***************************************************************************)
(* State-machine model of the chat backend (server/app/main.py,            *)
(* server/app/models.py): the three tables, the signed-cookie sessions,    *)
(* the HTTP handlers and the steps of the streaming generator of           *)
(* POST /api/chat between its suspension points (await / yield).           *)
(*                                                                         *)
(* Text is a sequence of one-character strings; the literal prefix of an   *)
(* error reply is kept as one token.  The handlers are `async def` bodies  *)
(* that call the synchronous ORM, so a handler runs atomically up to its   *)
(* first await / yield; the generator of the chat stream is cut at every   *)
(* yield and at every await of the inference client.                       *)
(***************************************************************************)
EXTENDS Integers, Sequences, FiniteSets, TLC

VARIABLES
    users,          \* rows of table users
    conversations,  \* rows of table conversations
    messages,       \* rows of table messages
    nextUserId,     \* next primary key of users
    nextConvId,     \* next primary key of conversations
    nextMsgId,      \* next primary key of messages
    now,            \* last reading of datetime.utcnow
    session,        \* per browser: the 'user' entry of its signed session cookie
    pending,        \* per browser: a GET /auth callback awaiting the provider
    chat,           \* per streaming task: the state of one chat invocation
    nchats,         \* number of chat streams started
    env             \* the deployment and the limits of the run; never changes

vars == <<users, conversations, messages, nextUserId, nextConvId, nextMsgId, now,
          session, pending, chat, nchats, env>>

(***************************** bounds **************************************)
\* chat streams started in a run
MaxChats == 2
\* conversation rows inserted in a run
MaxConvs == 2
\* content fragments relayed by one stream
MaxLines == 2
\* ticks of the clock in a run
MaxClock == 1

(************************* program constants *******************************)
TitleLimit == 50
HistoryLimit == 10

Clients == {"b1", "b2", "b3", "b4"}
Tasks == {"t1", "t2"}

(******************************* text **************************************)
Repeat(ch, n) == [i \in 1..n |-> ch]

ShortMessages == { <<"h", "i">> }
BoundaryMessages == { Repeat("m", TitleLimit), Repeat("m", TitleLimit + 1) }

\* the reply of the inference service is a text sent one character per
\* content line: Fragment(k) is the content of the k-th content line
Alphabet == <<"x", "y", "z", "w">>
Fragment(k) == << Alphabet[((k - 1) % Len(Alphabet)) + 1] >>
Fragments == { Fragment(k) : k \in 1..Len(Alphabet) }

\* str(e) of the exceptions the inference call raises
Details == { "refused" }

ErrorPrefix == <<"Ollama Connection Error: ">>

\* a rule that also shortens a message of exactly TitleLimit characters
TitleOf_Inclusive(message) ==
    IF Len(message) >= TitleLimit
    THEN SubSeq(message, 1, TitleLimit) \o <<".", ".", ".">>
    ELSE message

\* main.py:242  message[:50] + "..." if len(message) > 50 else message
TitleOf(message) ==
    IF Len(message) > TitleLimit
    THEN SubSeq(message, 1, TitleLimit) \o <<".", ".", ".">>
    ELSE message

\* main.py:309  f"Ollama Connection Error: {str(e)}"
ErrorMsg(e) == ErrorPrefix \o <<e>>

(************************ queries of the ORM *******************************)
NoSession == [sub |-> "", email |-> "", name |-> "", picture |-> ""]
NoUser == [id |-> 0, google_id |-> "", email |-> "", name |-> "", picture |-> ""]
NoMessage == [id |-> 0, content |-> <<>>, timestamp |-> 0]

\* .order_by(Message.timestamp.asc()).all(): every sequence that lists the rows
\* of S by ascending timestamp; rows with equal timestamps come in any order
\* (ORDER BY has no tie-break)
RECURSIVE OrderedByTimestamp(_)
OrderedByTimestamp(S) ==
    IF S = {} THEN { <<>> }
    ELSE UNION { { <<m>> \o rest : rest \in OrderedByTimestamp(S \ {m}) } :
                 m \in { x \in S : \A y \in S : x.timestamp <= y.timestamp } }

\* .order_by(Conversation.created_at.desc()).all()
RECURSIVE OrderedByCreatedDesc(_)
OrderedByCreatedDesc(S) ==
    IF S = {} THEN { <<>> }
    ELSE UNION { { <<c>> \o rest : rest \in OrderedByCreatedDesc(S \ {c}) } :
                 c \in { x \in S : \A y \in S : x.created_at >= y.created_at } }

Reverse(s) == [i \in 1..Len(s) |-> s[Len(s) + 1 - i]]

\* a lookup that falls back to some row when the cookie's subject has none
get_current_user_from_session_AnyRow(b) ==
    IF session[b] = NoSession THEN NoUser
    ELSE IF \E u \in users : u.google_id = session[b].sub
         THEN CHOOSE u \in users : u.google_id = session[b].sub
         ELSE CHOOSE u \in users : TRUE

\* main.py:49-54
get_current_user_from_session(b) ==
    IF session[b] = NoSession THEN NoUser
    ELSE IF \E u \in users : u.google_id = session[b].sub
         THEN CHOOSE u \in users : u.google_id = session[b].sub
         ELSE NoUser

\* a lookup by id alone, without the filter on the owner
OwnedConversation_AnyOwner(cid, db_user) ==
    { c \in conversations : c.id = cid }

\* .filter(Conversation.id == conversation_id, Conversation.user_id == db_user.id)
OwnedConversation(cid, db_user) ==
    { c \in conversations : c.id = cid /\ c.user_id = db_user.id }

MessagesOf(cid) == { m \in messages : m.conversation_id = cid }

\* the readings datetime.utcnow can give at the next insert: the clock does not
\* run backwards, and two inserts may read the same instant
Stamps == { t \in {now, now + 1} : t <= env.clock }

(****************************** responses **********************************)
Response(status, body) == [status |-> status, body |-> body]

ConversationJson(c) == [id |-> c.id, title |-> c.title, created_at |-> c.created_at]
MessageJson(m) ==
    [id |-> m.id, content |-> m.content, sender |-> m.sender, timestamp |-> m.timestamp]

Unchanged == UNCHANGED vars

(********************************* auth ************************************)
\* what the provider's userinfo can return: the claims of an account; the same
\* account after its display name was changed; an account whose email is the
\* email of another account's users row
ProviderClaims ==
    { [sub |-> "g1", email |-> "e1", name |-> "n1", picture |-> "p1"],
      [sub |-> "g1", email |-> "e1", name |-> "n1b", picture |-> "p1b"],
      [sub |-> "g2", email |-> "e2", name |-> "n2", picture |-> "p2"],
      [sub |-> "g3", email |-> "e1", name |-> "n3", picture |-> "p3"] }

AuthClients == {"b1", "b2"}

\* a lookup that never finds the row of a returning identity
ExistingUser_Never(user) == NoUser

\* main.py:73  db.query(User).filter(User.google_id == user['sub']).first()
ExistingUser(user) ==
    IF \E u \in users : u.google_id = user.sub
    THEN CHOOSE u \in users : u.google_id = user.sub
    ELSE NoUser

\* models.py:11-12  unique=True on google_id and on email
UniqueHolds(row) ==
    \A u \in users : u.google_id # row.google_id /\ u.email # row.email

\* GET /auth, main.py:70-71: the callback is received and the handler awaits
\* the provider (token exchange, userinfo), which will return `user`
auth_callback(b, user) ==
    /\ pending[b] = NoSession
    /\ pending' = [pending EXCEPT ![b] = user]
    /\ UNCHANGED <<users, conversations, messages, nextUserId, nextConvId, nextMsgId,
                   now, session, chat, nchats, env>>

\* a callback that stores the claims in the session before the insert is tried
auth_result_SessionFirst(b, user) ==
    LET new_user == [id |-> nextUserId, google_id |-> user.sub, email |-> user.email,
                     name |-> user.name, picture |-> user.picture] IN
    IF ExistingUser(user) # NoUser
    THEN [status |-> 307, users |-> users, session |-> user]
    ELSE IF UniqueHolds(new_user)
    THEN [status |-> 307, users |-> users \cup {new_user}, session |-> user]
    ELSE [status |-> 500, users |-> users, session |-> user]

\* GET /auth, main.py:72-84 with claims `user`: the outcome, with its status,
\* the users table and the session it leaves.  An insert that breaks a unique
\* constraint raises out of the handler (500) before the session is set.
auth_result(b, user) ==
    LET new_user == [id |-> nextUserId, google_id |-> user.sub, email |-> user.email,
                     name |-> user.name, picture |-> user.picture] IN
    IF ExistingUser(user) # NoUser
    THEN [status |-> 307, users |-> users, session |-> user]
    ELSE IF UniqueHolds(new_user)
    THEN [status |-> 307, users |-> users \cup {new_user}, session |-> user]
    ELSE [status |-> 500, users |-> users, session |-> session[b]]

auth(b) ==
    /\ pending[b] # NoSession
    /\ users' = auth_result(b, pending[b]).users
    /\ nextUserId' = IF users' = users THEN nextUserId ELSE nextUserId + 1
    /\ session' = [session EXCEPT ![b] = auth_result(b, pending[b]).session]
    /\ pending' = [pending EXCEPT ![b] = NoSession]
    /\ UNCHANGED <<conversations, messages, nextConvId, nextMsgId, now, chat,
                   nchats, env>>

\* GET /auth, main.py:70-72, 85: the provider raises or returns no claims;
\* nothing is written
auth_failed(b) ==
    /\ pending[b] = NoSession
    /\ Unchanged

\* a logout that also removes the conversations of the user who signs out
logout_Purge(b) ==
    /\ session' = [session EXCEPT ![b] = NoSession]
    /\ conversations' = { c \in conversations :
                            c.user_id # get_current_user_from_session(b).id }
    /\ UNCHANGED <<users, messages, nextUserId, nextConvId, nextMsgId,
                   now, pending, chat, nchats, env>>

\* POST /auth/logout, main.py:88-91
logout(b) ==
    /\ session' = [session EXCEPT ![b] = NoSession]
    /\ UNCHANGED <<users, conversations, messages, nextUserId, nextConvId, nextMsgId,
                   now, pending, chat, nchats, env>>

\* a profile built from the claims kept in the session cookie
me_response_FromSession(b) ==
    IF session[b] # NoSession /\ \E u \in users : u.google_id = session[b].sub
    THEN LET db_user == CHOOSE u \in users : u.google_id = session[b].sub IN
         << [id |-> ToString(db_user.id), email |-> session[b].email,
             name |-> session[b].name, picture |-> session[b].picture] >>
    ELSE << >>

\* GET /me, main.py:94-108: the "user" of the body, as a sequence that is empty
\* for null; the id is returned as a string
me_response(b) ==
    IF session[b] # NoSession /\ \E u \in users : u.google_id = session[b].sub
    THEN LET db_user == CHOOSE u \in users : u.google_id = session[b].sub IN
         << [id |-> ToString(db_user.id), email |-> db_user.email,
             name |-> db_user.name, picture |-> db_user.picture] >>
    ELSE << >>

get_current_user(b) ==
    /\ Len(me_response(b)) <= 1
    /\ Unchanged

(************************** conversation handlers **************************)
\* GET /api/conversations, main.py:113-133: the responses the handler can give
\* a listing without the filter on the owner
get_conversations_response_All(b) ==
    LET db_user == get_current_user_from_session(b) IN
    IF db_user = NoUser THEN { Response(401, <<>>) }
    ELSE { Response(200, [i \in 1..Len(rows) |-> ConversationJson(rows[i])]) :
           rows \in OrderedByCreatedDesc(conversations) }

get_conversations_response(b) ==
    LET db_user == get_current_user_from_session(b) IN
    IF db_user = NoUser THEN { Response(401, <<>>) }
    ELSE { Response(200, [i \in 1..Len(rows) |-> ConversationJson(rows[i])]) :
           rows \in OrderedByCreatedDesc({ c \in conversations : c.user_id = db_user.id }) }

get_conversations(b) ==
    /\ get_conversations_response(b) # {}
    /\ Unchanged

\* POST /api/conversations, main.py:136-159: the outcomes of the handler, each
\* with its status and the tables it leaves
create_conversation_results(b, title) ==
    LET db_user == get_current_user_from_session(b) IN
    IF db_user = NoUser
    THEN { [status |-> 401, conversations |-> conversations, now |-> now] }
    ELSE { [status |-> 200,
            conversations |-> conversations \cup
                { [id |-> nextConvId, user_id |-> db_user.id, title |-> title,
                   created_at |-> ts] },
            now |-> ts] : ts \in Stamps }

\* main.py:18-19  title: Optional[str] = "New Chat": the title of a request
\* body that is the sequence of its fields, empty when the title is omitted
NewChat == <<"N", "e", "w", " ", "C", "h", "a", "t">>
ConversationCreate(fields) == IF Len(fields) = 0 THEN NewChat ELSE fields[1]

\* main.py:153-159  the body of the 200 answer r: the refreshed new row
create_conversation_body(r) ==
    ConversationJson(CHOOSE c \in r.conversations : c \notin conversations)

create_conversation(b, title) ==
    \E r \in create_conversation_results(b, title) :
        /\ r.status = 200 => nextConvId <= env.convs
        /\ conversations' = r.conversations
        /\ now' = r.now
        /\ nextConvId' = IF r.status = 200 THEN nextConvId + 1 ELSE nextConvId
        /\ UNCHANGED <<users, messages, nextUserId, nextMsgId, session, pending,
                       chat, nchats, env>>

\* the messages left by db.delete(conversation); db.commit(): the ORM cascade
\* "all, delete-orphan" of Conversation.messages (models.py:32) deletes the
\* conversation's messages with it
CascadeDelete(conversation) ==
    { m \in messages : m.conversation_id # conversation.id }

\* DELETE /api/conversations/{conversation_id}, main.py:162-184: the outcome of
\* the handler, with its status and the tables it leaves
delete_conversation_result(b, cid) ==
    LET db_user == get_current_user_from_session(b) IN
    IF db_user = NoUser
    THEN [status |-> 401, conversations |-> conversations, messages |-> messages]
    ELSE IF OwnedConversation(cid, db_user) = {}
    THEN [status |-> 404, conversations |-> conversations, messages |-> messages]
    ELSE LET conversation == CHOOSE c \in OwnedConversation(cid, db_user) : TRUE IN
         [status |-> 200, conversations |-> conversations \ {conversation},
          messages |-> CascadeDelete(conversation)]

delete_conversation(b, cid) ==
    /\ conversations' = delete_conversation_result(b, cid).conversations
    /\ messages' = delete_conversation_result(b, cid).messages
    /\ UNCHANGED <<users, nextUserId, nextConvId, nextMsgId, now, session, pending,
                   chat, nchats, env>>

\* GET /api/conversations/{conversation_id}/messages, main.py:189-222: the
\* responses the handler can give
get_messages_response(b, cid) ==
    LET db_user == get_current_user_from_session(b) IN
    IF db_user = NoUser THEN { Response(401, <<>>) }
    ELSE IF OwnedConversation(cid, db_user) = {} THEN { Response(404, <<>>) }
    ELSE { Response(200, [i \in 1..Len(rows) |-> MessageJson(rows[i])]) :
           rows \in OrderedByTimestamp(MessagesOf(cid)) }

get_messages(b, cid) ==
    /\ get_messages_response(b, cid) # {}
    /\ Unchanged

(******************************** chat *************************************)
IdleTask ==
    [pc |-> "idle", client |-> "", user_id |-> 0, conversation_id |-> 0,
     user_message |-> NoMessage, frames |-> <<>>, history |-> <<>>,
     ollama_messages |-> <<>>,
     full_response |-> <<>>, calls |-> 0, relayed |-> 0, error |-> <<>>]

\* the streaming tasks are interchangeable: a new stream runs in the first free
\* one, and at most env.tasks streams run at a time
IsFree(t) == chat[t].pc \in {"idle", "closed", "crashed"}
FreeTask == IF IsFree("t1") THEN "t1" ELSE "t2"
CanStream ==
    /\ nchats < env.chats
    /\ IsFree(FreeTask)
    /\ Cardinality({ t \in Tasks : ~IsFree(t) }) < env.tasks

\* conversation_id: Optional[int] = None; `if not conversation_id` (main.py:241)
\* takes None and 0 alike.  NoConversationId stands for an absent field.
NoConversationId == -1
Falsy(conversation_id) == conversation_id = NoConversationId \/ conversation_id = 0

\* Message(conversation_id=..., sender=..., content=...); db.add; db.commit:
\* the row as inserted, with the primary key and the timestamp default
NewMessage(cid, sender, content, ts) ==
    [id |-> nextMsgId, conversation_id |-> cid, sender |-> sender,
     content |-> content, timestamp |-> ts]

\* a handler that returns the stream without committing the user message
SaveUserMessage_Uncommitted(cid, content, ts) == messages

\* main.py:256-264  the table after the user message is committed
SaveUserMessage(cid, content, ts) ==
    messages \cup { NewMessage(cid, "user", content, ts) }

\* the attributes read from the refreshed row (id, content, timestamp)
Refreshed(m) == [id |-> m.id, content |-> m.content, timestamp |-> m.timestamp]

\* raise HTTPException(status_code=...): nothing is written
Rejected(status) ==
    [status |-> status, conversations |-> conversations, messages |-> messages,
     now |-> now, conversation_id |-> 0, user_message |-> NoMessage]

\* main.py:256-264, 332: user message committed under conversation cid, the
\* StreamingResponse returned
Accepted(convs, cid, message, ts) ==
    [status |-> 200, conversations |-> convs,
     messages |-> SaveUserMessage(cid, message, ts), now |-> ts,
     conversation_id |-> cid,
     user_message |-> Refreshed(NewMessage(cid, "user", message, ts))]

\* main.py:243-247  the table after the new conversation is committed
NewConversation(db_user, message, created) ==
    conversations \cup { [id |-> nextConvId, user_id |-> db_user.id,
                          title |-> TitleOf(message), created_at |-> created] }

\* POST /api/chat, main.py:227-264 and 332: the outcomes of the handler up to
\* the return of the StreamingResponse, each with its status and the tables it
\* leaves
chat_results(b, message, conversation_id) ==
    LET db_user == get_current_user_from_session(b) IN
    IF db_user = NoUser THEN { Rejected(401) }
    ELSE IF Falsy(conversation_id)
    THEN UNION { { Accepted(NewConversation(db_user, message, created), nextConvId,
                            message, ts) :
                   ts \in { x \in {created, created + 1} : x <= env.clock } } :
                 created \in Stamps }
    ELSE IF OwnedConversation(conversation_id, db_user) = {} THEN { Rejected(404) }
    ELSE { Accepted(conversations, conversation_id, message, ts) : ts \in Stamps }

\* the generator of an accepted request, created and not yet iterated
NewTask(b, r) ==
    [IdleTask EXCEPT !.pc = "meta", !.client = b,
                     !.user_id = get_current_user_from_session(b).id,
                     !.conversation_id = r.conversation_id,
                     !.user_message = r.user_message]

chat_handler(b, message, conversation_id) ==
    \E r \in chat_results(b, message, conversation_id) :
        /\ r.status = 200 => CanStream /\ (Falsy(conversation_id) => nextConvId <= env.convs)
        /\ conversations' = r.conversations
        /\ messages' = r.messages
        /\ now' = r.now
        /\ nextConvId' = IF r.conversations = conversations THEN nextConvId
                         ELSE nextConvId + 1
        /\ nextMsgId' = IF r.messages = messages THEN nextMsgId ELSE nextMsgId + 1
        /\ chat' = IF r.status = 200 THEN [chat EXCEPT ![FreeTask] = NewTask(b, r)]
                   ELSE chat
        /\ nchats' = IF r.status = 200 THEN nchats + 1 ELSE nchats
        /\ UNCHANGED <<users, nextUserId, session, pending, env>>

(************************ chat.event_generator *****************************)
MetaFrame(cid, user_message) ==
    [type |-> "meta", conversation_id |-> cid, message |-> user_message,
     content |-> <<>>]
ContentFrame(content) ==
    [type |-> "content", conversation_id |-> 0, message |-> NoMessage,
     content |-> content]
ErrorFrame(content) ==
    [type |-> "error", conversation_id |-> 0, message |-> NoMessage,
     content |-> content]
DoneFrame(ai_message) ==
    [type |-> "done", conversation_id |-> 0, message |-> ai_message,
     content |-> <<>>]

GeneratorStep ==
    UNCHANGED <<users, conversations, nextUserId, nextConvId, session, pending,
                nchats, env>>

\* main.py:268-276  the first yield
EmitMeta(t) ==
    /\ chat[t].pc = "meta"
    /\ chat' = [chat EXCEPT ![t].pc = "history",
                            ![t].frames = Append(@, MetaFrame(chat[t].conversation_id,
                                                              chat[t].user_message))]
    /\ UNCHANGED <<messages, nextMsgId, now>>
    /\ GeneratorStep

Min(a, b) == IF a < b THEN a ELSE b

\* main.py:279-282  the results the query can give: the first HistoryLimit rows by
\* descending timestamp (rows with equal timestamps in any order), reversed
History(cid) ==
    { Reverse(SubSeq(Reverse(asc), 1, Min(Len(asc), HistoryLimit))) :
      asc \in OrderedByTimestamp(MessagesOf(cid)) }

\* main.py:284
OllamaMessages(history) ==
    [i \in 1..Len(history) |->
        [role |-> IF history[i].sender = "user" THEN "user" ELSE "assistant",
         content |-> history[i].content]]

\* main.py:308-311  the except branch: yield the error frame, keep the text
Fail(task, e) ==
    [task EXCEPT !.pc = "persist",
                 !.frames = Append(@, ErrorFrame(ErrorMsg(e))),
                 !.full_response = ErrorMsg(e),
                 !.error = <<e>>]

\* main.py:279-298  history query, then the request to the inference service:
\* it connects and answers with a success status, or raises (connection error,
\* timeout, raise_for_status)
CallInference(t) ==
    /\ chat[t].pc = "history"
    /\ \E history \in History(chat[t].conversation_id), ok \in BOOLEAN, e \in Details :
         LET called == [chat[t] EXCEPT !.history = [i \in 1..Len(history) |-> history[i].id],
                                       !.ollama_messages = OllamaMessages(history),
                                       !.calls = @ + 1] IN
         chat' = [chat EXCEPT ![t] = IF ok THEN [called EXCEPT !.pc = "stream"]
                                     ELSE Fail(called, e)]
    /\ UNCHANGED <<messages, nextMsgId, now>>
    /\ GeneratorStep

\* the lines the inference service can send: an empty line, a JSON object with
\* or without message.content and with or without a true "done", or text that
\* is no JSON
InferenceLines ==
    { [kind |-> "empty", content |-> <<>>, done |-> FALSE],
      [kind |-> "malformed", content |-> <<>>, done |-> FALSE] }
    \cup [kind : {"content"}, content : Fragments, done : BOOLEAN]
    \cup [kind : {"nocontent"}, content : {<<>>}, done : BOOLEAN]

\* a relay that puts each new fragment in front of the accumulated reply
ProcessLine_Prepend(task, line, e) ==
    IF line.kind = "empty" THEN task
    ELSE IF line.kind = "malformed" THEN Fail(task, e)
    ELSE LET relayed ==
               IF line.kind = "content"
               THEN [task EXCEPT !.relayed = @ + 1,
                                 !.full_response = line.content \o @,
                                 !.frames = Append(@, ContentFrame(line.content))]
               ELSE task
         IN IF line.done THEN [relayed EXCEPT !.pc = "persist"] ELSE relayed

\* main.py:299-307  one line of response.aiter_lines(); e is what json.loads
\* raises on a line that is no JSON
ProcessLine(task, line, e) ==
    IF line.kind = "empty" THEN task
    ELSE IF line.kind = "malformed" THEN Fail(task, e)
    ELSE LET relayed ==
               IF line.kind = "content"
               THEN [task EXCEPT !.relayed = @ + 1,
                                 !.full_response = @ \o line.content,
                                 !.frames = Append(@, ContentFrame(line.content))]
               ELSE task
         IN IF line.done THEN [relayed EXCEPT !.pc = "persist"] ELSE relayed

ReadLine(t) ==
    /\ chat[t].pc = "stream"
    /\ \E line \in InferenceLines, e \in Details :
         /\ line.kind = "content" => /\ chat[t].relayed < MaxLines
                                      /\ line.content = Fragment(chat[t].relayed + 1)
         /\ chat' = [chat EXCEPT ![t] = ProcessLine(chat[t], line, e)]
    /\ UNCHANGED <<messages, nextMsgId, now>>
    /\ GeneratorStep

\* main.py:299, 308  the stream ends without a line with "done" (ok), or
\* reading it raises
EndOfStream(t) ==
    /\ chat[t].pc = "stream"
    /\ \E ok \in BOOLEAN, e \in Details :
         chat' = [chat EXCEPT ![t] = IF ok THEN [chat[t] EXCEPT !.pc = "persist"]
                                     ELSE Fail(chat[t], e)]
    /\ UNCHANGED <<messages, nextMsgId, now>>
    /\ GeneratorStep

\* whether the datastore accepts a message row for conversation cid
\* (models.py:39, ForeignKey("conversations.id")): a store that enforces the
\* key refuses a row whose conversation is gone
ForeignKeyHolds(cid) ==
    ~env.fk \/ \E c \in conversations : c.id = cid

\* a persist step that stores the reply accumulated by the other stream
PersistAi_Mixed(t) ==
    /\ chat[t].pc = "persist"
    /\ IF ForeignKeyHolds(chat[t].conversation_id)
       THEN \E ts \in Stamps :
              LET other == CHOOSE o \in Tasks : o # t
                  ai_message == NewMessage(chat[t].conversation_id, "ai",
                                           chat[other].full_response, ts) IN
              /\ messages' = messages \cup {ai_message}
              /\ nextMsgId' = nextMsgId + 1
              /\ now' = ts
              /\ chat' = [chat EXCEPT ![t].pc = "closed",
                                      ![t].frames = Append(@, DoneFrame(Refreshed(ai_message)))]
       ELSE /\ chat' = [chat EXCEPT ![t].pc = "crashed"]
            /\ UNCHANGED <<messages, nextMsgId, now>>
    /\ GeneratorStep

\* main.py:313-330  persist the reply and yield the done frame; an insert the
\* datastore refuses raises out of the generator and ends the stream
PersistAi(t) ==
    /\ chat[t].pc = "persist"
    /\ IF ForeignKeyHolds(chat[t].conversation_id)
       THEN \E ts \in Stamps :
              LET ai_message == NewMessage(chat[t].conversation_id, "ai",
                                           chat[t].full_response, ts) IN
              /\ messages' = messages \cup {ai_message}
              /\ nextMsgId' = nextMsgId + 1
              /\ now' = ts
              /\ chat' = [chat EXCEPT ![t].pc = "closed",
                                      ![t].frames = Append(@, DoneFrame(Refreshed(ai_message)))]
       ELSE /\ chat' = [chat EXCEPT ![t].pc = "crashed"]
            /\ UNCHANGED <<messages, nextMsgId, now>>
    /\ GeneratorStep

(***************************** specification *******************************)
User1 == [id |-> 1, google_id |-> "g1", email |-> "e1", name |-> "n1", picture |-> "p1"]
User2 == [id |-> 2, google_id |-> "g2", email |-> "e2", name |-> "n2", picture |-> "p2"]
Claims(u) ==
    [sub |-> u.google_id, email |-> u.email, name |-> u.name, picture |-> u.picture]
StaleClaims == [sub |-> "g3", email |-> "e3", name |-> "n3", picture |-> "p3"]

\* two users have signed in from browsers b1 and b2; b3 holds no session; b4
\* holds a signed cookie whose subject has no row in users: the cookie is kept
\* by the browser, and this one was issued against an earlier database
SignedIn ==
    /\ users = {User1, User2}
    /\ nextUserId = 3
    /\ session = [b \in Clients |->
                    CASE b = "b1" -> Claims(User1)
                      [] b = "b2" -> Claims(User2)
                      [] b = "b3" -> NoSession
                      [] OTHER -> StaleClaims]
    /\ pending = [b \in Clients |-> NoSession]

Environment(fk, tasks, chats, convs, clock) ==
    [fk |-> fk, tasks |-> tasks, chats |-> chats, convs |-> convs, clock |-> clock]

\* an empty store, one stream at a time
Init ==
    /\ SignedIn
    /\ conversations = {}
    /\ messages = {}
    /\ nextConvId = 1
    /\ nextMsgId = 1
    /\ now = 0
    /\ chat = [t \in Tasks |-> IdleTask]
    /\ nchats = 0
    /\ \E fk \in BOOLEAN : env = Environment(fk, 1, MaxChats, MaxConvs, MaxClock)

ConversationIds == 0..MaxConvs \cup {NoConversationId}

Streams ==
    \/ \E t \in Tasks : EmitMeta(t)
    \/ \E t \in Tasks : CallInference(t)
    \/ \E t \in Tasks : ReadLine(t)
    \/ \E t \in Tasks : EndOfStream(t)
    \/ \E t \in Tasks : PersistAi(t)

Next ==
    \/ \E b \in Clients : get_conversations(b)
    \/ \E b \in Clients : create_conversation(b, <<"T">>)
    \/ \E b \in Clients, cid \in 1..MaxConvs : delete_conversation(b, cid)
    \/ \E b \in Clients, cid \in 1..MaxConvs : get_messages(b, cid)
    \/ \E b \in Clients, m \in ShortMessages, cid \in ConversationIds :
          chat_handler(b, m, cid)
    \/ Streams

Spec == Init /\ [][Next]_vars

\* a conversation of user 1 that already holds n messages of earlier turns,
\* committed at distinct instants in the past
Seeded(n) ==
    /\ conversations = { [id |-> 1, user_id |-> 1, title |-> <<"T">>, created_at |-> 0] }
    /\ messages = { [id |-> i, conversation_id |-> 1,
                     sender |-> IF i % 2 = 1 THEN "user" ELSE "ai",
                     content |-> <<"p">>, timestamp |-> i - 1] : i \in 1..n }
    /\ nextConvId = 2
    /\ nextMsgId = n + 1
    /\ now = n

Seeds == { 0, HistoryLimit }

\* two chat invocations, which may run at the same time, on the one
\* conversation, which nobody deletes
InitRace ==
    /\ SignedIn
    /\ \E n \in Seeds :
         /\ Seeded(n)
         /\ env = Environment(TRUE, 2, 2, 1, n + MaxClock)
    /\ chat = [t \in Tasks |-> IdleTask]
    /\ nchats = 0

NextRace ==
    \/ \E b \in Clients : get_messages(b, 1)
    \/ \E b \in Clients, m \in ShortMessages : chat_handler(b, m, 1)
    \/ Streams

SpecRace == InitRace /\ [][NextRace]_vars

\* a fresh deployment: no rows, no sessions
InitAuth ==
    /\ users = {}
    /\ nextUserId = 1
    /\ session = [b \in Clients |-> NoSession]
    /\ pending = [b \in Clients |-> NoSession]
    /\ conversations = {}
    /\ messages = {}
    /\ nextConvId = 1
    /\ nextMsgId = 1
    /\ now = 0
    /\ chat = [t \in Tasks |-> IdleTask]
    /\ nchats = 0
    /\ env = Environment(TRUE, 1, MaxChats, MaxConvs, MaxClock)

NextAuth ==
    \/ \E b \in AuthClients, user \in ProviderClaims : auth_callback(b, user)
    \/ \E b \in AuthClients : auth(b)
    \/ \E b \in AuthClients : auth_failed(b)
    \/ \E b \in AuthClients : logout(b)
    \/ \E b \in AuthClients : get_current_user(b)

SpecAuth == InitAuth /\ [][NextAuth]_vars

\* the boundary of the title rule: messages of TitleLimit and TitleLimit + 1
\* characters
NextTitle ==
    \/ \E b \in Clients, m \in BoundaryMessages, cid \in ConversationIds :
          chat_handler(b, m, cid)
    \/ \E b \in Clients, cid \in 1..MaxConvs : get_messages(b, cid)
    \/ Streams

SpecTitle == Init /\ [][NextTitle]_vars


(***************************************************************************)
(*                               the claims                                *)
(***************************************************************************)
Started(t) == chat[t].pc # "idle"
Ended(t) == chat[t].pc \in {"closed", "crashed"}
Types(f) == [i \in 1..Len(f) |-> f[i].type]
Count(f, type) == Cardinality({ i \in 1..Len(f) : f[i].type = type })
ConversationExists(cid) == \E c \in conversations : c.id = cid

\* the row of the user message of the invocation in task t
UserRow(t) ==
    [id |-> chat[t].user_message.id, conversation_id |-> chat[t].conversation_id,
     sender |-> "user", content |-> chat[t].user_message.content,
     timestamp |-> chat[t].user_message.timestamp]

\* the frames emitted so far are in order: the meta frame is the first and the
\* only one, nothing follows a done frame, at most one error frame, and no
\* content frame after it
FramesInOrder ==
    \A t \in Tasks :
        LET f == chat[t].frames IN
        /\ \A i \in 1..Len(f) : f[i].type = "meta" <=> i = 1
        /\ \A i \in 1..Len(f) : f[i].type = "done" => i = Len(f)
        /\ \A i \in 1..Len(f) : f[i].type = "error" => i >= Len(f) - 1
        /\ Count(f, "error") <= 1
        /\ chat[t].pc \notin {"idle", "meta"} => Len(f) >= 1

\* C1: within one chat invocation the frames are ordered: exactly one meta
\* frame first, every content frame after it, and exactly one done frame, after
\* every content and error frame, is the last frame of the stream
C1_FrameOrder ==
    /\ FramesInOrder
    /\ \A t \in Tasks :
         Ended(t) => /\ Count(chat[t].frames, "done") = 1
                     /\ chat[t].frames[Len(chat[t].frames)].type = "done"

\* C2: in every chat invocation the user message is committed, and visible to
\* a request that reads the conversation, before the first frame is emitted
\* and before the inference service is called: a task that has not yet emitted
\* a frame nor called the service already has its user row committed under the
\* resolved conversation, and the row stays visible for as long as the
\* conversation exists
C2_UserMessageFirst ==
    \A t \in Tasks :
        Started(t) =>
            /\ chat[t].pc = "meta" => chat[t].frames = <<>> /\ chat[t].calls = 0
            /\ chat[t].user_message.id \in 1..(nextMsgId - 1)
            /\ ConversationExists(chat[t].conversation_id) =>
                 /\ UserRow(t) \in messages
                 /\ \A r \in get_messages_response(chat[t].client, chat[t].conversation_id) :
                      /\ r.status = 200
                      /\ \E i \in 1..Len(r.body) : r.body[i] = MessageJson(UserRow(t))

C2_Witness ==
    \E t \in Tasks :
        /\ chat[t].pc = "stream"
        /\ Len(chat[t].frames) = 1
        /\ chat[t].calls = 1
        /\ UserRow(t) \in messages

(* the requests of browser b naming the id of a conversation are answered 404
   and write nothing *)
NotFoundFor(b, cid) ==
    /\ get_messages_response(b, cid) = { Response(404, <<>>) }
    /\ delete_conversation_result(b, cid) =
          [status |-> 404, conversations |-> conversations, messages |-> messages]
    /\ \A m \in ShortMessages : chat_results(b, m, cid) = { Rejected(404) }

\* C3: ownership isolation: for every conversation C and every authenticated
\* user B who does not own it, B's fetch-messages, delete and chat requests
\* naming C's id are answered 404, as they are for an id no conversation has,
\* and leave the tables as they are; a stream only ever writes to a
\* conversation of the user who started it
C3_OwnershipIsolation ==
    /\ \A c \in conversations, b \in Clients :
         LET db_user == get_current_user_from_session(b) IN
         (db_user # NoUser /\ db_user.id # c.user_id) =>
            /\ NotFoundFor(b, c.id)
            /\ NotFoundFor(b, nextConvId)
    /\ \A c \in conversations, t \in Tasks :
         (Started(t) /\ chat[t].conversation_id = c.id) => chat[t].user_id = c.user_id

C3_Witness ==
    \E c \in conversations :
        /\ c.user_id = 1
        /\ Cardinality(MessagesOf(c.id)) >= 2
        /\ get_current_user_from_session("b2").id = 2
        /\ NotFoundFor("b2", c.id)
        /\ \E t \in Tasks : chat[t].pc = "closed" /\ chat[t].conversation_id = c.id

(* every protected request of browser b is answered 401, returns nothing and
   writes nothing *)
Unauthorized(b) ==
    /\ get_conversations_response(b) = { Response(401, <<>>) }
    /\ create_conversation_results(b, <<"T">>) =
          { [status |-> 401, conversations |-> conversations, now |-> now] }
    /\ \A cid \in ConversationIds :
         /\ get_messages_response(b, cid) = { Response(401, <<>>) }
         /\ delete_conversation_result(b, cid) =
               [status |-> 401, conversations |-> conversations, messages |-> messages]
         /\ \A m \in ShortMessages : chat_results(b, m, cid) = { Rejected(401) }

\* C4: a request to a protected endpoint that carries no session identity, or
\* one whose google_id matches no users row, is answered 401 and neither
\* creates, deletes nor returns a conversation or message
C4_Unauthenticated ==
    \A b \in Clients :
        (session[b] = NoSession \/ ~ \E u \in users : u.google_id = session[b].sub)
            => Unauthorized(b)

C4_Witness ==
    /\ conversations # {}
    /\ messages # {}
    /\ session["b3"] = NoSession /\ Unauthorized("b3")
    /\ session["b4"] # NoSession /\ Unauthorized("b4")

\* C5: if the inference call of an invocation fails, before the first fragment
\* or after some content frames, the stream emits exactly one error frame whose
\* content is "Ollama Connection Error: " followed by the details, the service
\* is not called again, an ai message with that content is persisted and the
\* done frame follows
C5_InferenceFailure ==
    \A t \in Tasks :
        chat[t].error # <<>> =>
            LET f == chat[t].frames IN
            /\ Count(f, "error") = 1
            /\ \E i \in 1..Len(f) : f[i] = ErrorFrame(ErrorPrefix \o chat[t].error)
            /\ chat[t].calls = 1
            /\ chat[t].pc \in {"persist", "closed"}
            /\ chat[t].pc = "closed" =>
                 /\ f[Len(f)].type = "done"
                 /\ f[Len(f) - 1].type = "error"
                 /\ f[Len(f)].message.content = ErrorPrefix \o chat[t].error


\* GET /api/conversations/{id}/messages asked by the caller of task t: the
\* messages that are new since the invocation started
NewSince(t, body) == SelectSeq(body, LAMBDA m : m.id >= chat[t].user_message.id)

\* what a fetch of the conversation of task t returns once its stream has
\* closed: 200, and as new messages the user message followed by the ai reply
TwoNewMessages(t) ==
    \A r \in get_messages_response(chat[t].client, chat[t].conversation_id) :
        /\ r.status = 200
        /\ Len(NewSince(t, r.body)) = 2
        /\ NewSince(t, r.body)[1] = MessageJson(UserRow(t))
        /\ NewSince(t, r.body)[2].sender = "ai"
        /\ NewSince(t, r.body)[2].content = chat[t].full_response
        /\ NewSince(t, r.body)[2].timestamp >= NewSince(t, r.body)[1].timestamp

\* C6: after a chat invocation has completed successfully (its done frame was
\* emitted), a fetch of that conversation's messages returns exactly two
\* messages that were not there before the call, the user message with the
\* original text and then the ai message with the accumulated reply, and the
\* ai timestamp is not earlier than the user's
C6_TwoNewMessages ==
    [][ \A t \in Tasks :
          (chat[t].pc = "persist" /\ chat'[t].pc = "closed") => TwoNewMessages(t)' ]_vars

HistoryRow(id) == CHOOSE m \in messages : m.id = id

\* C7: the context sent to the inference service holds at most HistoryLimit
\* messages of the target conversation, the most recent ones in chronological
\* order, its last entry is the just-submitted user message, stored sender
\* "user" is sent as role "user" and "ai" as "assistant"
C7_Context ==
    \A t \in Tasks :
        chat[t].calls >= 1 =>
            LET h == chat[t].history
                ctx == chat[t].ollama_messages
                before == { m \in MessagesOf(chat[t].conversation_id) :
                              m.id <= chat[t].user_message.id }
            IN
            /\ Len(h) <= HistoryLimit
            /\ Len(h) = Min(Cardinality(before), HistoryLimit)
            /\ Len(ctx) = Len(h)
            /\ Len(h) >= 1 /\ h[Len(h)] = chat[t].user_message.id
            /\ \A i \in 1..Len(h) :
                 /\ HistoryRow(h[i]) \in before
                 /\ ctx[i].content = HistoryRow(h[i]).content
                 /\ ctx[i].role = IF HistoryRow(h[i]).sender = "user" THEN "user"
                                  ELSE "assistant"
                 /\ \A m \in before :
                      (\A j \in 1..Len(h) : h[j] # m.id)
                          => m.timestamp <= HistoryRow(h[i]).timestamp
            /\ \A i \in 1..(Len(h) - 1) :
                 HistoryRow(h[i]).timestamp <= HistoryRow(h[i + 1]).timestamp

\* C8: a successful delete removes the conversation and every message of it,
\* and every stored message refers to an existing conversation at all times,
\* also when the delete runs between the steps of a chat on that conversation
C8_NoOrphans ==
    /\ \A b \in Clients, cid \in 1..MaxConvs :
         LET r == delete_conversation_result(b, cid) IN
         r.status = 200 =>
            /\ \A c \in r.conversations : c.id # cid
            /\ \A m \in r.messages : m.conversation_id # cid
    /\ \A m \in messages : ConversationExists(m.conversation_id)


HasRow(sub) == \E u \in users : u.google_id = sub

\* C9: the users table never holds two rows with one google_id: the first
\* callback for an identity creates the row, a later successful callback for
\* it creates none and signs the browser in, also when two callbacks for one
\* new identity are in flight together; the sessions of one identity all look
\* up the same user id
C9_OneUserPerIdentity ==
    /\ [](\A u1, u2 \in users : u1.google_id = u2.google_id => u1 = u2)
    /\ [](\A b1, b2 \in Clients :
            (session[b1] # NoSession /\ session[b2] # NoSession
                /\ session[b1].sub = session[b2].sub) =>
               /\ Len(me_response(b1)) = 1
               /\ Len(me_response(b2)) = 1
               /\ me_response(b1)[1].id = me_response(b2)[1].id)
    /\ [][ \A b \in Clients :
             (pending[b] # NoSession /\ pending'[b] = NoSession) =>
                IF HasRow(pending[b].sub)
                THEN users' = users /\ session'[b] = pending[b]
                ELSE Cardinality(users') <= Cardinality(users) + 1 ]_vars

C9_Witness ==
    /\ session["b1"] # NoSession /\ session["b2"] # NoSession
    /\ session["b1"].sub = "g1" /\ session["b2"].sub = "g1"
    /\ session["b1"].name # session["b2"].name
    /\ Cardinality({ u \in users : u.google_id = "g1" }) = 1
    /\ me_response("b1") = me_response("b2")
    /\ Len(me_response("b1")) = 1

\* the title rule, stated on the characters
TitleRule(message, title) ==
    IF Len(message) <= TitleLimit
    THEN title = message
    ELSE /\ Len(title) = TitleLimit + 3
         /\ \A i \in 1..TitleLimit : title[i] = message[i]
         /\ \A i \in (TitleLimit + 1)..(TitleLimit + 3) : title[i] = "."

FirstMessage(cid) ==
    CHOOSE m \in MessagesOf(cid) : \A o \in MessagesOf(cid) : m.id <= o.id

\* C10: a chat request without a conversation id creates a conversation owned
\* by the caller whose title is the message itself when the message has at
\* most TitleLimit characters, and its first TitleLimit characters followed by
\* "..." when it is longer: a message of TitleLimit + 1 characters gives a
\* title of TitleLimit + 3 characters
C10_Title ==
    /\ \A b \in Clients, m \in BoundaryMessages \cup ShortMessages :
         LET db_user == get_current_user_from_session(b) IN
         db_user # NoUser =>
            \A r \in chat_results(b, m, NoConversationId) :
                /\ r.status = 200
                /\ \E c \in r.conversations :
                     /\ r.conversations = conversations \cup {c}
                     /\ c.id = r.conversation_id
                     /\ c \notin conversations
                     /\ c.user_id = db_user.id
                     /\ TitleRule(m, c.title)
                     /\ Len(m) = TitleLimit + 1 => Len(c.title) = TitleLimit + 3
    /\ \A c \in conversations :
         MessagesOf(c.id) # {} => TitleRule(FirstMessage(c.id).content, c.title)

C10_Witness ==
    /\ \E c \in conversations :
         /\ Len(c.title) = TitleLimit + 3
         /\ Len(FirstMessage(c.id).content) = TitleLimit + 1
         /\ c.user_id = 1
    /\ \E c \in conversations :
         /\ Len(c.title) = TitleLimit
         /\ FirstMessage(c.id).content = c.title


(************************ progress of the streams **************************)
\* the steps of the generator of task t
event_generator(t) ==
    \/ EmitMeta(t)
    \/ CallInference(t)
    \/ ReadLine(t)
    \/ EndOfStream(t)
    \/ PersistAi(t)

\* the event loop resumes every generator whose client stays connected, and
\* the inference client returns a line, the end of the stream or an error
\* (httpx timeout, main.py:288) to every read
Fairness == \A t \in Tasks : WF_vars(event_generator(t))

NextLive ==
    \/ \E b \in Clients, cid \in 1..MaxConvs : delete_conversation(b, cid)
    \/ \E b \in Clients, m \in ShortMessages, cid \in ConversationIds :
          chat_handler(b, m, cid)
    \/ Streams

SpecLive == Init /\ [][NextLive]_vars /\ Fairness

Running(t) == chat[t].pc \in {"meta", "history", "stream", "persist"}

\* the stream of task t has emitted its done frame, and the ai message the
\* frame reports was committed for the conversation of the invocation
DoneAndPersisted(t) ==
    LET f == chat[t].frames IN
    /\ chat[t].pc = "closed"
    /\ Count(f, "done") = 1
    /\ f[Len(f)].type = "done"
    /\ Cardinality({ m \in messages : /\ m.id = f[Len(f)].message.id
                                      /\ m.sender = "ai"
                                      /\ m.conversation_id = chat[t].conversation_id
                                      /\ m.content = chat[t].full_response }) = 1

\* C11: every chat stream that has started, and whose client stays connected,
\* eventually persists exactly one ai message and emits its done frame,
\* whether the inference call succeeds, fails to connect, returns an error
\* status or delivers a malformed stream
C11_EventuallyDone ==
    \A t \in Tasks : Running(t) ~> DoneAndPersisted(t)


(********************* signing out and signing in again ********************)
\* the two signed-in users sign out and in again while they use one
\* conversation and one chat stream
InitSession ==
    /\ SignedIn
    /\ conversations = {}
    /\ messages = {}
    /\ nextConvId = 1
    /\ nextMsgId = 1
    /\ now = 0
    /\ chat = [t \in Tasks |-> IdleTask]
    /\ nchats = 0
    /\ env = Environment(TRUE, 1, 1, 1, MaxClock)

NextSession ==
    \/ \E b \in Clients : logout(b)
    \/ \E b \in AuthClients, u \in {User1, User2} : auth_callback(b, Claims(u))
    \/ \E b \in AuthClients : auth(b)
    \/ \E b \in Clients : get_current_user(b)
    \/ \E b \in Clients : get_conversations(b)
    \/ \E b \in Clients : create_conversation(b, <<"T">>)
    \/ \E b \in Clients, cid \in 1..MaxConvs : delete_conversation(b, cid)
    \/ \E b \in Clients, cid \in 1..MaxConvs : get_messages(b, cid)
    \/ \E b \in Clients, m \in ShortMessages, cid \in ConversationIds :
          chat_handler(b, m, cid)
    \/ Streams

SpecSession == InitSession /\ [][NextSession]_vars

\* C12: POST /auth/logout always succeeds and clears the session, leaving the
\* users row and the conversations and messages as they are; from then until
\* the next successful GET /auth callback of that browser every protected
\* endpoint answers it 401 and GET /me answers {"user": null}
C12_Logout ==
    /\ [](\A b \in Clients : ENABLED logout(b))
    /\ [][ \A b \in Clients :
             logout(b) => /\ session'[b] = NoSession
                          /\ users' = users
                          /\ conversations' = conversations
                          /\ messages' = messages ]_vars
    /\ [](\A b \in Clients :
            session[b] = NoSession => Unauthorized(b) /\ me_response(b) = << >>)
    /\ [][ \A b \in Clients :
             (session[b] = NoSession /\ session'[b] # NoSession) =>
                /\ pending[b] # NoSession
                /\ auth_result(b, pending[b]).status = 307
                /\ session'[b] = pending[b] ]_vars

C12_Witness ==
    /\ session["b1"] = NoSession
    /\ pending["b1"] = NoSession
    /\ User1 \in users
    /\ \E c \in conversations : c.user_id = 1 /\ MessagesOf(c.id) # {}
    /\ Unauthorized("b1")
    /\ me_response("b1") = << >>


(************************ listing the conversations ************************)
\* request bodies of POST /api/conversations: no title, or the title "T"
CreateBodies == { << >>, << <<"T">> >> }

\* conversations are created, by POST /api/conversations and by chats that
\* name no conversation, listed and deleted
InitList ==
    /\ SignedIn
    /\ conversations = {}
    /\ messages = {}
    /\ nextConvId = 1
    /\ nextMsgId = 1
    /\ now = 0
    /\ chat = [t \in Tasks |-> IdleTask]
    /\ nchats = 0
    /\ env = Environment(TRUE, 2, 1, MaxConvs + 1, MaxClock)

NextList ==
    \/ \E b \in Clients : get_conversations(b)
    \/ \E b \in Clients, fields \in CreateBodies :
          create_conversation(b, ConversationCreate(fields))
    \/ \E b \in Clients, cid \in 1..(MaxConvs + 1) : delete_conversation(b, cid)
    \/ \E b \in Clients, m \in ShortMessages : chat_handler(b, m, NoConversationId)

SpecList == InitList /\ [][NextList]_vars

Owned(db_user) == { c \in conversations : c.user_id = db_user.id }

\* the list lists exactly the rows of S, each once and as stored, newest first
ListsNewestFirst(body, S) ==
    /\ Len(body) = Cardinality(S)
    /\ \A c \in S : \E i \in 1..Len(body) : body[i] = ConversationJson(c)
    /\ \A i \in 1..Len(body) : \E c \in S : body[i] = ConversationJson(c)
    /\ \A i \in 1..(Len(body) - 1) : body[i].created_at >= body[i + 1].created_at

\* C13: GET /api/conversations returns exactly the conversations owned by the
\* current user, none of another user, newest first by creation time; a
\* conversation just created with POST /api/conversations (with the title
\* given, or "New Chat" when it is omitted) is in the list that follows, with
\* the id and the title the create call returned
C13_ListConversations ==
    /\ [](\A b \in Clients :
            LET db_user == get_current_user_from_session(b) IN
            db_user # NoUser =>
               \A l \in get_conversations_response(b) :
                   l.status = 200 /\ ListsNewestFirst(l.body, Owned(db_user)))
    /\ [][ \A b \in Clients, fields \in CreateBodies :
             \A r \in create_conversation_results(b, ConversationCreate(fields)) :
                ( /\ r.status = 200
                  /\ conversations' = r.conversations
                  /\ nextConvId' = nextConvId + 1
                  /\ messages' = messages /\ chat' = chat ) =>
                   /\ create_conversation_body(r).id = nextConvId
                   /\ create_conversation_body(r).title =
                         (IF fields = << >> THEN NewChat ELSE fields[1])
                   /\ \A l \in get_conversations_response(b)' :
                        \E i \in 1..Len(l.body) :
                           /\ l.body[i].id = create_conversation_body(r).id
                           /\ l.body[i].title = create_conversation_body(r).title
                           /\ l.body[i].created_at = create_conversation_body(r).created_at ]_vars

C13_Witness ==
    /\ \E c1, c2 \in Owned(User1) :
         c1.created_at < c2.created_at /\ c1.title = NewChat /\ c2.title = <<"T">>
    /\ Owned(User2) # {}
    /\ \A l \in get_conversations_response("b1") :
         l.status = 200 /\ Len(l.body) = 2 /\ l.body[1].title = <<"T">>


(******************************* GET /me ***********************************)
\* browsers sign in, with the claims the provider returns at that time, sign
\* out and ask for their profile; b3 holds no session and b4 a cookie whose
\* subject has no row
InitMe ==
    /\ SignedIn
    /\ conversations = {}
    /\ messages = {}
    /\ nextConvId = 1
    /\ nextMsgId = 1
    /\ now = 0
    /\ chat = [t \in Tasks |-> IdleTask]
    /\ nchats = 0
    /\ env = Environment(TRUE, 1, MaxChats, MaxConvs, MaxClock)

NextMe ==
    \/ \E b \in AuthClients, user \in ProviderClaims : auth_callback(b, user)
    \/ \E b \in AuthClients : auth(b)
    \/ \E b \in AuthClients : auth_failed(b)
    \/ \E b \in Clients : logout(b)
    \/ \E b \in Clients : get_current_user(b)

SpecMe == InitMe /\ [][NextMe]_vars

\* the profile of the users row of subject sub, with the id as a string
Profile(sub) ==
    LET row == CHOOSE u \in users : u.google_id = sub IN
    [id |-> ToString(row.id), email |-> row.email, name |-> row.name,
     picture |-> row.picture]

\* C14: GET /me never answers with an error and never changes the state: it
\* returns the profile (id as a string, email, name, picture) of the stored
\* users row of the session's subject when the session carries an identity
\* and that row exists, and {"user": null} in every other case
C14_Me ==
    /\ [](\A b \in Clients :
            /\ ENABLED get_current_user(b)
            /\ IF session[b] # NoSession /\ HasRow(session[b].sub)
               THEN me_response(b) = << Profile(session[b].sub) >>
               ELSE me_response(b) = << >>)
    /\ [][ \A b \in Clients : get_current_user(b) => UNCHANGED vars ]_vars

C14_Witness ==
    /\ session["b1"].sub = "g1" /\ session["b1"].name = "n1b"
    /\ me_response("b1") =
          << [id |-> "1", email |-> "e1", name |-> "n1", picture |-> "p1"] >>
    /\ session["b2"] = NoSession /\ me_response("b2") = << >>
    /\ session["b4"] = StaleClaims /\ me_response("b4") = << >>


\* C15: within a conversation the messages are totally ordered by their
\* timestamp and this is the transcript order: no two messages of one
\* conversation carry the same timestamp, and GET
\* /api/conversations/{id}/messages returns the messages in the order in which
\* they were committed (the order of their ids)
C15_TotalOrder ==
    /\ \A c \in conversations :
         \A m1, m2 \in MessagesOf(c.id) : m1 # m2 => m1.timestamp # m2.timestamp
    /\ \A c \in conversations, b \in Clients :
         \A r \in get_messages_response(b, c.id) :
            r.status = 200 =>
               \A i \in 1..(Len(r.body) - 1) : r.body[i].id < r.body[i + 1].id


\* C16: whenever a chat request supplies a conversation_id, for every integer
\* including 0, the conversation is looked up scoped to the caller: the request
\* is answered 404 and persists nothing if the caller owns no such
\* conversation, and no conversation is created; a conversation is created
\* only when no conversation_id is supplied
C16_SuppliedIdLookedUp ==
    \A b \in Clients, m \in ShortMessages, cid \in 0..MaxConvs :
        LET db_user == get_current_user_from_session(b) IN
        db_user # NoUser =>
           \A r \in chat_results(b, m, cid) :
              /\ r.conversations = conversations
              /\ IF OwnedConversation(cid, db_user) = {}
                 THEN r.status = 404 /\ r.messages = messages
                 ELSE r.status = 200 /\ r.conversation_id = cid


\* the concatenation, in order, of the contents of the content frames of f
RECURSIVE Relayed(_)
Relayed(f) ==
    IF f = << >> THEN << >>
    ELSE IF f[1].type = "content" THEN f[1].content \o Relayed(Tail(f))
    ELSE Relayed(Tail(f))

\* C17: in a chat invocation whose inference call does not fail, one content
\* frame is emitted per inference line that carries a content fragment, in
\* arrival order and with that fragment, and none for another line; reading
\* stops at the first line that signals completion, after which no content
\* frame is emitted; the content of the persisted ai message and of the done
\* frame is the concatenation, in order, of the contents of the content frames
C17_ContentRelay ==
    /\ [](\A t \in Tasks :
            (Started(t) /\ chat[t].error = << >>) =>
               /\ chat[t].full_response = Relayed(chat[t].frames)
               /\ Count(chat[t].frames, "content") = chat[t].relayed
               /\ Count(chat[t].frames, "error") = 0
               /\ chat[t].pc = "closed" =>
                    chat[t].frames[Len(chat[t].frames)].message.content
                       = Relayed(chat[t].frames)
               /\ chat[t].pc = "stream" =>
                    \A line \in InferenceLines, e \in Details :
                       LET after == ProcessLine(chat[t], line, e) IN
                       /\ line.kind = "content" =>
                            after.frames = Append(chat[t].frames,
                               [type |-> "content", conversation_id |-> 0,
                                message |-> NoMessage, content |-> line.content])
                       /\ line.kind \in {"empty", "nocontent"} =>
                            after.frames = chat[t].frames
                       /\ (line.kind \in {"content", "nocontent"} /\ line.done) =>
                            after.pc = "persist")
    /\ [][ \A t \in Tasks :
             (chat[t].pc = "persist" /\ chat[t].error = << >>) =>
                \/ chat'[t] = chat[t]
                \/ chat'[t].pc = "crashed" /\ chat'[t].frames = chat[t].frames
                \/ /\ chat'[t].pc = "closed"
                   /\ \E m \in messages' \ messages :
                        /\ messages' = messages \cup {m}
                        /\ m.sender = "ai"
                        /\ m.conversation_id = chat[t].conversation_id
                        /\ m.content = Relayed(chat[t].frames)
                        /\ chat'[t].frames = Append(chat[t].frames,
                              [type |-> "done", conversation_id |-> 0,
                               message |-> [id |-> m.id, content |-> m.content,
                                            timestamp |-> m.timestamp],
                               content |-> << >>]) ]_vars

C17_Witness ==
    \E t \in Tasks :
        /\ chat[t].pc = "closed"
        /\ chat[t].error = << >>
        /\ Types(chat[t].frames) = <<"meta", "content", "content", "done">>
        /\ chat[t].full_response = <<"x", "y">>
        /\ \E m \in messages : m.sender = "ai" /\ m.content = <<"x", "y">>


\* the id of the ai message that the done frame of task t reports
DoneId(t) == chat[t].frames[Len(chat[t].frames)].message.id

\* the rows of conversation cid committed since the first of the two
\* invocations started
GainedBy(t1, t2, cid) ==
    { m \in MessagesOf(cid) :
        m.id >= Min(chat[t1].user_message.id, chat[t2].user_message.id) }

\* C18: two chat invocations that run concurrently on one conversation may
\* interleave their writes, yet none is lost or mixed: under every
\* interleaving in which both reach their done frame the conversation gains
\* exactly two user and two ai messages, each ai message holds the reply
\* accumulated by its own invocation, and each invocation's ai message is
\* committed after that invocation's user message
C18_ConcurrentChats ==
    \A t1, t2 \in Tasks :
        ( /\ t1 # t2
          /\ chat[t1].pc = "closed" /\ chat[t2].pc = "closed"
          /\ chat[t1].conversation_id = chat[t2].conversation_id ) =>
            LET gained == GainedBy(t1, t2, chat[t1].conversation_id) IN
            /\ Cardinality({ m \in gained : m.sender = "user" }) = 2
            /\ Cardinality({ m \in gained : m.sender = "ai" }) = 2
            /\ UserRow(t1) \in gained /\ UserRow(t2) \in gained
            /\ DoneId(t1) # DoneId(t2)
            /\ \A t \in {t1, t2} :
                 /\ DoneId(t) > chat[t].user_message.id
                 /\ \E m \in gained :
                      /\ m.id = DoneId(t)
                      /\ m.sender = "ai"
                      /\ m.content = chat[t].full_response
                      /\ m.timestamp >= chat[t].user_message.timestamp

C18_Witness ==
    /\ chat["t1"].pc = "closed" /\ chat["t2"].pc = "closed"
    /\ chat["t1"].conversation_id = chat["t2"].conversation_id
    /\ chat["t1"].full_response # chat["t2"].full_response
    /\ chat["t1"].user_message.id < chat["t2"].user_message.id
    /\ chat["t2"].user_message.id < DoneId("t2")
    /\ DoneId("t2") < DoneId("t1")


\* the protected endpoints do not answer browser b 401
NotRefused(b) ==
    /\ \A r \in get_conversations_response(b) : r.status # 401
    /\ \A r \in create_conversation_results(b, <<"T">>) : r.status # 401
    /\ \A cid \in ConversationIds :
         /\ \A r \in get_messages_response(b, cid) : r.status # 401
         /\ delete_conversation_result(b, cid).status # 401
         /\ \A m \in ShortMessages : \A r \in chat_results(b, m, cid) : r.status # 401

\* C19: starting from an empty users table and no session, in every reachable
\* state a session that carries an identity was set by a successful GET /auth
\* callback that returned claims, and a users row with that google_id exists:
\* the row is there before the session is set, and no operation deletes or
\* re-keys a users row; so a caller with an established session is never
\* answered 401 by a protected endpoint, and a callback that returns no claims
\* or whose insert fails establishes no session
C19_SessionHasRow ==
    /\ [](\A b \in Clients :
            session[b] # NoSession => HasRow(session[b].sub) /\ NotRefused(b))
    /\ [][ \A u \in users :
             \E v \in users' : v.id = u.id /\ v.google_id = u.google_id ]_vars
    /\ [][ \A b \in Clients :
             (session'[b] # session[b] /\ session'[b] # NoSession) =>
                /\ pending[b] # NoSession
                /\ pending'[b] = NoSession
                /\ session'[b] = pending[b]
                /\ auth_result(b, pending[b]).status = 307
                /\ \E u \in users' : u.google_id = pending[b].sub ]_vars
    /\ [][ \A b \in Clients :
             ( /\ pending[b] # NoSession /\ pending'[b] = NoSession
               /\ auth_result(b, pending[b]).status # 307 ) =>
                session' = session /\ users' = users ]_vars

C19_Witness ==
    /\ session["b1"] # NoSession /\ session["b1"].sub = "g1"
    /\ session["b2"] = NoSession
    /\ pending["b2"] = NoSession
    /\ nextUserId = 2
    /\ users # {} /\ \A u \in users : u.google_id = "g1"
    /\ NotRefused("b1")

====
